---- MODULE Spec2Model ----
(***************************************************************************)
(* A model of query-builder-wrapper: the decorator metadata registry, the  *)
(* SQL compiler, the Repository (data mapper), the EntityManager (unit of  *)
(* work) and the DataSource, over an abstract SQLite connection.           *)
(***************************************************************************)
EXTENDS Integers, Sequences, FiniteSets, TLC

VARIABLES
    metadata,         \* Reflect metadata: TABLE_KEY, COLUMN_KEY, PRIMARY_KEY per class
    dsDb,             \* DataSource.db: the connection id, 0 for null
    isInitialized,    \* DataSource.isInitialized
    nextConn,         \* the id the next `new Database(path)` gets
    mgrDb,            \* EntityManager.db
    repositoryCache,  \* EntityManager.repositoryCache
    durable,          \* the database file: what is committed
    working,          \* what the open connection sees (uncommitted writes included)
    txStack,          \* open db.transaction() calls, outermost first
    lastCall          \* the last call made by the program's user and its outcome

vars == <<metadata, dsDb, isInitialized, nextConn, mgrDb, repositoryCache,
          durable, working, txStack, lastCall>>

-----------------------------------------------------------------------------
(* Bounds of the model *)

MaxNameLen == 2       \* characters of a table name handed to @Entity
MaxDepth == 1         \* nesting depth of EntityManager.transaction
MaxConnections == 2   \* connections a DataSource opens, one per initialize()
MaxRows == 1          \* rows saved into one table while the DataSource is cycled
MaxNesting == 2       \* depth of transaction calls made from inside a callback
MaxInstant == 24      \* milliseconds after the epoch of the Date values converted
MaxInteger == 12      \* magnitude of the numbers converted

-----------------------------------------------------------------------------
(* JavaScript and SQLite values.  A value is a record of its kind, its      *)
(* number and its text, so that values of different kinds compare.         *)

Num(n) == [k |-> "number", n |-> n, s |-> ""]
Str(s) == [k |-> "string", n |-> 0, s |-> s]
Bool(b) == [k |-> "boolean", n |-> IF b THEN 1 ELSE 0, s |-> ""]
Null == [k |-> "null", n |-> 0, s |-> ""]
Undefined == [k |-> "undefined", n |-> 0, s |-> ""]
\* A Date is its time value in milliseconds; Invalid Date has none
Date(ms) == [k |-> "Date", n |-> ms, s |-> ""]
InvalidDate == [k |-> "Date", n |-> -1, s |-> "Invalid Date"]

IsNullish(v) == v.k \in {"null", "undefined"}

-----------------------------------------------------------------------------
(* Classes: the entity types of examples.ts and one class left for the     *)
(* decorators to be applied to.                                            *)

Classes == {"A", "B", "User", "T"}

\* TABLE_KEY is absent: getTableName's `!table` also holds of the empty name
NoTableName == <<>>
\* PRIMARY_KEY is absent: `!this.primaryKey`
NoPrimaryKey == ""

EmptyMetadata ==
    [table |-> [c \in Classes |-> NoTableName],
     columns |-> [c \in Classes |-> <<>>],
     primary |-> [c \in Classes |-> NoPrimaryKey]]

\* design:type, emitted by the compiler for each declared property
DesignType(propertyKey) ==
    CASE propertyKey = "id" -> "Number"
      [] propertyKey = "userId" -> "Number"
      [] propertyKey = "isActive" -> "Boolean"
      [] OTHER -> "String"

\* The characters a table name is made of in this model
Letter == {"a", "b", "t", "u"}
Digit == {"1"}
NameChar == {"u", "1", "_", ";", "'"}

\* The pattern without its `$`: only the first character is looked at
MatchesIdentifierUnanchored(name) ==
    /\ Len(name) > 0
    /\ name[1] \in Letter \cup {"_"}

\* /^[a-zA-Z_][a-zA-Z0-9_]*$/.test(tableName)
MatchesIdentifier(name) ==
    /\ Len(name) > 0
    /\ name[1] \in Letter \cup {"_"}
    /\ \A i \in 1..Len(name) : name[i] \in Letter \cup Digit \cup {"_"}

\* Entity(tableName)(target): the metadata afterwards, or the error thrown
EntityDecorator(md, target, tableName) ==
    IF Len(tableName) = 0
    THEN [ok |-> FALSE, error |-> "empty table name", md |-> md]
    ELSE IF ~MatchesIdentifier(tableName)
    THEN [ok |-> FALSE, error |-> "invalid table name", md |-> md]
    ELSE [ok |-> TRUE, error |-> "",
          md |-> [md EXCEPT !.table[target] = tableName]]

\* Column(columnName, isPrimary)(target.prototype, propertyKey);
\* columnName "" stands for the argument left out
ColumnDecorator(md, target, propertyKey, columnName, isPrimary) ==
    [ok |-> TRUE, error |-> "",
     md |-> [md EXCEPT
               !.columns[target] = Append(@,
                   [property |-> propertyKey,
                    column |-> IF columnName # "" THEN columnName ELSE propertyKey,
                    type |-> DesignType(propertyKey),
                    isPrimary |-> isPrimary]),
               !.primary[target] = IF isPrimary THEN propertyKey ELSE @]]

\* getTableName(entity)
GetTableName(md, entity) ==
    IF md.table[entity] = NoTableName
    THEN [ok |-> FALSE, error |-> "missing @Entity decorator", value |-> NoTableName]
    ELSE [ok |-> TRUE, error |-> "", value |-> md.table[entity]]

\* getColumnMetadata without its check for an empty column list
GetColumnMetadataLax(md, entity) ==
    [ok |-> TRUE, error |-> "", value |-> md.columns[entity]]

\* getColumnMetadata(entity)
GetColumnMetadata(md, entity) ==
    IF Len(md.columns[entity]) = 0
    THEN [ok |-> FALSE, error |-> "no @Column decorators", value |-> <<>>]
    ELSE [ok |-> TRUE, error |-> "", value |-> md.columns[entity]]

\* getPrimaryKey(entity)
GetPrimaryKey(md, entity) == md.primary[entity]

-----------------------------------------------------------------------------
(* The SQLite connection (better-sqlite3).  A database is a function from  *)
(* the names of its tables to their columns and rows; a row is a function  *)
(* from column names to values.  Rows are kept in rowid order.             *)

EmptyDatabase == <<>>

HasTable(db, t) == t \in DOMAIN db

ColumnNames(columns) == {columns[i].name : i \in 1..Len(columns)}

\* The INTEGER PRIMARY KEY column of a table, "" when it has none
PrimaryColumn(table) ==
    IF \E i \in 1..Len(table.columns) : table.columns[i].primaryKey
    THEN LET i == CHOOSE i \in 1..Len(table.columns) : table.columns[i].primaryKey
         IN table.columns[i].name
    ELSE ""

\* What better-sqlite3 binds: numbers, strings and null (undefined as null)
Bindable(v) == v.k \in {"number", "string", "null", "undefined"}
Bound(v) == IF v.k = "undefined" THEN Null ELSE v

Failure(msg, db) == [ok |-> FALSE, error |-> msg, value |-> Undefined, db |-> db]
Success(value, db) == [ok |-> TRUE, error |-> "", value |-> value, db |-> db]

\* CREATE TABLE IF NOT EXISTS <table> (<column> <type> <constraints>, ...)
SqlCreate(db, stmt) ==
    IF HasTable(db, stmt.table) THEN Success(Num(0), db)
    ELSE IF \E i \in 1..Len(stmt.columns) :
                 stmt.columns[i].autoincrement
                 /\ ~(stmt.columns[i].primaryKey /\ stmt.columns[i].sqlType = "INTEGER")
    THEN Failure("AUTOINCREMENT is only allowed on an INTEGER PRIMARY KEY", db)
    ELSE IF Cardinality({i \in 1..Len(stmt.columns) : stmt.columns[i].primaryKey}) > 1
    THEN Failure("table has more than one primary key", db)
    ELSE IF Cardinality(ColumnNames(stmt.columns)) < Len(stmt.columns)
    THEN Failure("duplicate column name", db)
    ELSE Success(Num(0),
                 (stmt.table :> [columns |-> stmt.columns, rows |-> <<>>]) @@ db)

\* The place of a new row among rows kept in primary-key (rowid) order
InsertAt(rows, row, pk) ==
    LET before == Cardinality({i \in 1..Len(rows) : rows[i][pk].n < row[pk].n})
    IN SubSeq(rows, 1, before) \o <<row>> \o SubSeq(rows, before + 1, Len(rows))

\* INSERT [OR REPLACE] INTO <table> (<columns>) VALUES (?, ...)
SqlInsert(db, stmt, params) ==
    IF \E i \in 1..Len(params) : ~Bindable(params[i])
    THEN Failure("SQLite3 can only bind numbers, strings, bigints, buffers, and null", db)
    ELSE IF ~HasTable(db, stmt.table) THEN Failure("no such table", db)
    ELSE
    LET table == db[stmt.table]
        names == ColumnNames(table.columns)
        pk == PrimaryColumn(table)
        row == [c \in names |->
                  IF \E i \in 1..Len(stmt.columns) : stmt.columns[i] = c
                  THEN Bound(params[CHOOSE i \in 1..Len(stmt.columns) : stmt.columns[i] = c])
                  ELSE Null]
        others == SelectSeq(table.rows, LAMBDA r : r[pk] # row[pk])
    IN  IF \E i \in 1..Len(stmt.columns) : stmt.columns[i] \notin names
        THEN Failure("table has no such column", db)
        ELSE IF pk = ""
        THEN Success(Num(1), [db EXCEPT ![stmt.table].rows = Append(@, row)])
        ELSE IF row[pk].k # "number"
        THEN Failure("datatype mismatch", db)
        ELSE IF Len(others) < Len(table.rows) /\ ~stmt.orReplace
        THEN Failure("UNIQUE constraint failed", db)
        ELSE Success(Num(1),
                     [db EXCEPT ![stmt.table].rows = InsertAt(others, row, pk)])

\* A row satisfies <column> = ? AND ...; NULL equals nothing
Matches(row, where, params) ==
    \A i \in 1..Len(where) :
        /\ Bound(params[i]).k # "null"
        /\ row[where[i]] = Bound(params[i])

\* What prepare() rejects in a statement with a WHERE clause
WhereError(db, stmt, params) ==
    IF \E i \in 1..Len(params) : ~Bindable(params[i])
    THEN "SQLite3 can only bind numbers, strings, bigints, buffers, and null"
    ELSE IF ~HasTable(db, stmt.table) THEN "no such table"
    ELSE IF \E i \in 1..Len(stmt.where) :
                 stmt.where[i] \notin ColumnNames(db[stmt.table].columns)
    THEN "no such column"
    ELSE ""

\* SELECT * FROM <table> [WHERE ...]: .all(), the matching rows in rowid order
SqlSelectAll(db, stmt, params) ==
    IF WhereError(db, stmt, params) # ""
    THEN Failure(WhereError(db, stmt, params), db)
    ELSE Success(SelectSeq(db[stmt.table].rows,
                           LAMBDA r : Matches(r, stmt.where, params)), db)

\* SELECT ... LIMIT 1: .get(), the first matching row, or no row
SqlSelectGet(db, stmt, params) ==
    LET all == SqlSelectAll(db, stmt, params)
    IN  IF ~all.ok THEN all
        ELSE IF Len(all.value) = 0 THEN Success(<<>>, db)
        ELSE Success(<<all.value[1]>>, db)

\* DELETE FROM <table> WHERE ...; an empty WHERE clause is a syntax error
SqlDelete(db, stmt, params) ==
    IF Len(stmt.where) = 0 THEN Failure("syntax error: incomplete input", db)
    ELSE IF WhereError(db, stmt, params) # ""
    THEN Failure(WhereError(db, stmt, params), db)
    ELSE LET kept == SelectSeq(db[stmt.table].rows,
                               LAMBDA r : ~Matches(r, stmt.where, params))
         IN Success(Num(Len(db[stmt.table].rows) - Len(kept)),
                    [db EXCEPT ![stmt.table].rows = kept])

\* The rows put back in primary-key (rowid) order
RECURSIVE InRowidOrder(_, _, _)
InRowidOrder(rows, sorted, pk) ==
    IF Len(rows) = 0 THEN sorted
    ELSE InRowidOrder(Tail(rows), InsertAt(sorted, Head(rows), pk), pk)

\* UPDATE <table> SET <column> = ?, ... WHERE ...; the SET parameters come
\* first; an empty WHERE clause is a syntax error
SqlUpdate(db, stmt, params) ==
    LET setParams == SubSeq(params, 1, Len(stmt.set))
        whereParams == SubSeq(params, Len(stmt.set) + 1, Len(params))
        probe == [kind |-> "select", table |-> stmt.table, where |-> stmt.set \o stmt.where]
    IN  IF Len(stmt.where) = 0 \/ Len(stmt.set) = 0
        THEN Failure("syntax error: incomplete input", db)
        ELSE IF WhereError(db, probe, params) # ""
        THEN Failure(WhereError(db, probe, params), db)
        ELSE
        LET table == db[stmt.table]
            pk == PrimaryColumn(table)
            hit == {i \in 1..Len(table.rows) : Matches(table.rows[i], stmt.where, whereParams)}
            changed(row) ==
                [c \in DOMAIN row |->
                    IF \E j \in 1..Len(stmt.set) : stmt.set[j] = c
                    THEN Bound(setParams[CHOOSE j \in 1..Len(stmt.set) : stmt.set[j] = c])
                    ELSE row[c]]
            rows == [i \in 1..Len(table.rows) |->
                        IF i \in hit THEN changed(table.rows[i]) ELSE table.rows[i]]
        IN  IF pk = "" \/ hit = {}
            THEN Success(Num(Cardinality(hit)), [db EXCEPT ![stmt.table].rows = rows])
            ELSE IF \E i \in hit : rows[i][pk].k # "number"
            THEN Failure("datatype mismatch", db)
            ELSE IF \E i \in 1..Len(rows) : \E j \in 1..Len(rows) :
                        i # j /\ rows[i][pk] = rows[j][pk]
            THEN Failure("UNIQUE constraint failed", db)
            ELSE Success(Num(Cardinality(hit)),
                         [db EXCEPT ![stmt.table].rows = InRowidOrder(rows, <<>>, pk)])

\* SELECT COUNT(*) as count FROM <table>
SqlCount(db, stmt) ==
    IF ~HasTable(db, stmt.table) THEN Failure("no such table", db)
    ELSE Success(Num(Len(db[stmt.table].rows)), db)

-----------------------------------------------------------------------------
(* SqliteCompiler: statements as records of what the SQL text says.        *)

\* The EntityMetadata a Repository hands to the compiler and to the guard
CompilerColumns(repo, markPrimary) ==
    [i \in 1..Len(repo.columns) |->
        [name |-> repo.columns[i].column,
         type |-> repo.columns[i].type,
         isPrimary |-> markPrimary /\ repo.columns[i].property = repo.primaryKey]]

CompilerMeta(repo, markPrimary) ==
    [tableName |-> repo.tableName, columns |-> CompilerColumns(repo, markPrimary)]

\* compileInsert(meta)
CompileInsert(meta) ==
    [kind |-> "insert", table |-> meta.tableName, orReplace |-> FALSE,
     columns |-> [i \in 1..Len(meta.columns) |-> meta.columns[i].name]]

\* A criteria object is the sequence of its <<key, value>> entries
Keys(criteria) == [i \in 1..Len(criteria) |-> criteria[i][1]]
Values(criteria) == [i \in 1..Len(criteria) |-> criteria[i][2]]

\* compileSelect(meta, criteria)
CompileSelect(meta, criteria) ==
    [sql |-> [kind |-> "select", table |-> meta.tableName, where |-> Keys(criteria)],
     params |-> Values(criteria)]

\* compileDelete(meta, criteria)
CompileDelete(meta, criteria) ==
    [sql |-> [kind |-> "delete", table |-> meta.tableName, where |-> Keys(criteria)],
     params |-> Values(criteria)]

\* compileCount(meta)
CompileCount(meta) == [kind |-> "count", table |-> meta.tableName]

-----------------------------------------------------------------------------
(* Value conversion and the entity guard                                   *)

\* columns.find() found nothing: `!column || !column.type`
NoColumn == [property |-> "", column |-> "", type |-> "", isPrimary |-> FALSE]

\* Date.prototype.toISOString, for the instants of the epoch's first second
ToISOString(ms) ==
    "1970-01-01T00:00:00."
      \o (IF ms < 10 THEN "00" ELSE IF ms < 100 THEN "0" ELSE "") \o ToString(ms) \o "Z"

\* new Date(text): the instant the text is the ISO form of, or Invalid Date
NewDate(text) ==
    IF \E ms \in 0..999 : ToISOString(ms) = text
    THEN Date(CHOOSE ms \in 0..999 : ToISOString(ms) = text)
    ELSE InvalidDate

\* VALUE_CONVERTERS[typeName].toDb, with toDbValue's pass-through cases
\* (toISOString of an Invalid Date throws; no such value is converted here)
ToDbValue(column, value) ==
    IF IsNullish(value) \/ column.type = "" THEN value
    ELSE IF column.type = "Boolean"
    THEN (IF value.k = "boolean" THEN Num(value.n) ELSE value)
    ELSE IF column.type = "Date"
    THEN (IF value.k = "Date" /\ value.n >= 0 THEN Str(ToISOString(value.n)) ELSE value)
    ELSE value

\* fromDbValue that hands the stored value back as it is
FromDbValueUnconverted(column, value) == value

\* fromDbValue with the Date converter's fromDb left out
FromDbValueDatesAsText(column, value) ==
    IF column.type = "Boolean" /\ value.k = "number" THEN Bool(value.n # 0) ELSE value

\* fromDbValue that takes 1 alone for true, as SqliteAdapter.fromSqlValue does
FromDbValueOneOnly(column, value) ==
    IF IsNullish(value) \/ column.type # "Boolean" THEN value
    ELSE Bool(value = Num(1))

\* VALUE_CONVERTERS[typeName].fromDb, with fromDbValue's pass-through cases
FromDbValue(column, value) ==
    IF IsNullish(value) \/ column.type = "" THEN value
    ELSE IF column.type = "Boolean"
    THEN (IF value = Num(1) THEN Bool(TRUE)
          ELSE IF value = Num(0) THEN Bool(FALSE)
          ELSE IF value.k = "number" THEN Bool(value.n # 0)
          ELSE IF value.k = "string" THEN Bool(value.s # "")
          ELSE value)
    ELSE IF column.type = "Date"
    THEN (IF value.k = "string" THEN NewDate(value.s) ELSE value)
    ELSE value

\* isValidType(value, tsType): the type names a Repository passes are
\* "Number", "String", "Boolean" and "Date"; the switch knows "Date" only
IsValidType(value, tsType) ==
    IF IsNullish(value) THEN TRUE
    ELSE IF tsType = "Date" THEN value.k \in {"Date", "string"}
    ELSE TRUE

\* createEntityGuard(meta)(data): every column NAME is a key of the object
GuardEntity(meta, data) ==
    \A i \in 1..Len(meta.columns) :
        /\ meta.columns[i].name \in DOMAIN data
        /\ IsValidType(data[meta.columns[i].name], meta.columns[i].type)

-----------------------------------------------------------------------------
(* Repository                                                              *)

NoRepository == [entity |-> "", db |-> 0, tableName |-> NoTableName,
                 columns |-> <<>>, primaryKey |-> NoPrimaryKey]

\* new Repository(entity, db)
NewRepository(md, entity, db) ==
    IF ~GetTableName(md, entity).ok
    THEN [ok |-> FALSE, error |-> GetTableName(md, entity).error, value |-> NoRepository]
    ELSE IF ~GetColumnMetadata(md, entity).ok
    THEN [ok |-> FALSE, error |-> GetColumnMetadata(md, entity).error,
          value |-> NoRepository]
    ELSE [ok |-> TRUE, error |-> "",
          value |-> [entity |-> entity, db |-> db,
                     tableName |-> GetTableName(md, entity).value,
                     columns |-> GetColumnMetadata(md, entity).value,
                     primaryKey |-> GetPrimaryKey(md, entity)]]

\* this.columns.find((c) => c.property === prop)
FindColumn(repo, prop) ==
    IF \E i \in 1..Len(repo.columns) : repo.columns[i].property = prop
    THEN repo.columns[CHOOSE i \in 1..Len(repo.columns) : repo.columns[i].property = prop]
    ELSE NoColumn

\* getColumnName(prop)
GetColumnName(repo, prop) ==
    IF FindColumn(repo, prop) = NoColumn THEN prop
    ELSE FindColumn(repo, prop).column

\* normalizeCriteria(criteria)
NormalizeCriteria(repo, criteria) ==
    [i \in 1..Len(criteria) |->
        <<GetColumnName(repo, criteria[i][1]),
          ToDbValue(FindColumn(repo, criteria[i][1]), criteria[i][2])>>]

\* mapRowToEntity(row): a key the row lacks reads as undefined
MapRowToEntity(repo, row) ==
    [p \in {repo.columns[i].property : i \in 1..Len(repo.columns)} |->
        LET col == FindColumn(repo, p)
        IN FromDbValue(col, IF col.column \in DOMAIN row THEN row[col.column]
                            ELSE Undefined)]

MapRows(repo, rows) == [i \in 1..Len(rows) |-> MapRowToEntity(repo, rows[i])]

\* find()
Find(repo, db) ==
    LET q == CompileSelect(CompilerMeta(repo, FALSE), <<>>)
        r == SqlSelectAll(db, q.sql, q.params)
    IN IF r.ok THEN Success(MapRows(repo, r.value), db) ELSE r

\* findBy without the delegation to find(): no criteria, no rows
FindByNothingOnEmpty(repo, db, criteria) ==
    IF Len(criteria) = 0 THEN Success(<<>>, db)
    ELSE LET q == CompileSelect(CompilerMeta(repo, FALSE),
                                NormalizeCriteria(repo, criteria))
             r == SqlSelectAll(db, q.sql, q.params)
         IN IF r.ok THEN Success(MapRows(repo, r.value), db) ELSE r

\* findBy(criteria)
FindBy(repo, db, criteria) ==
    IF Len(criteria) = 0 THEN Find(repo, db)
    ELSE LET q == CompileSelect(CompilerMeta(repo, FALSE),
                                NormalizeCriteria(repo, criteria))
             r == SqlSelectAll(db, q.sql, q.params)
         IN IF r.ok THEN Success(MapRows(repo, r.value), db) ELSE r

\* findOneBy that hands the absent row to the shape guard
FindOneByThrowingOnAbsent(repo, db, criteria) ==
    LET q == CompileSelect(CompilerMeta(repo, FALSE), NormalizeCriteria(repo, criteria))
        r == SqlSelectGet(db, q.sql, q.params)
    IN  IF ~r.ok THEN r
        ELSE IF Len(r.value) = 0 THEN Failure("Invalid entity shape from database", db)
        ELSE Success(MapRowToEntity(repo, r.value[1]), db)

\* findOneBy(criteria)
FindOneBy(repo, db, criteria) ==
    LET q == CompileSelect(CompilerMeta(repo, FALSE), NormalizeCriteria(repo, criteria))
        r == SqlSelectGet(db, q.sql, q.params)
    IN  IF ~r.ok THEN r
        ELSE IF Len(r.value) = 0 THEN Success(Undefined, db)
        ELSE IF ~GuardEntity(CompilerMeta(repo, FALSE), MapRowToEntity(repo, r.value[1]))
        THEN Failure("Invalid entity shape from database", db)
        ELSE Success(MapRowToEntity(repo, r.value[1]), db)

\* findById without its check of the primary key
FindByIdUnchecked(repo, db, id) ==
    FindOneBy(repo, db, <<(<<repo.primaryKey, id>>)>>)

\* findById(id)
FindById(repo, db, id) ==
    IF repo.primaryKey = NoPrimaryKey THEN Failure("no primary key defined", db)
    ELSE FindOneBy(repo, db, <<(<<repo.primaryKey, id>>)>>)

\* save(entity)
Save(repo, db, entity) ==
    IF ~GuardEntity(CompilerMeta(repo, FALSE), entity)
    THEN Failure("Entity does not match expected shape", db)
    ELSE SqlInsert(db, CompileInsert(CompilerMeta(repo, TRUE)),
                   [i \in 1..Len(repo.columns) |->
                       ToDbValue(repo.columns[i],
                                 IF repo.columns[i].property \in DOMAIN entity
                                 THEN entity[repo.columns[i].property]
                                 ELSE Undefined)])

\* The UPDATE statement update() builds itself, and its parameters
UpdateStatement(repo, criteria, updates) ==
    [sql |-> [kind |-> "update", table |-> repo.tableName,
              set |-> [i \in 1..Len(updates) |-> GetColumnName(repo, updates[i][1])],
              where |-> Keys(NormalizeCriteria(repo, criteria))],
     params |-> [i \in 1..Len(updates) |->
                    ToDbValue(FindColumn(repo, updates[i][1]), updates[i][2])]
                  \o Values(NormalizeCriteria(repo, criteria))]

\* update with the check of the update keys left out
UpdateUnchecked(repo, db, criteria, updates) ==
    SqlUpdate(db, UpdateStatement(repo, criteria, updates).sql,
              UpdateStatement(repo, criteria, updates).params)

\* update(criteria, updates)
Update(repo, db, criteria, updates) ==
    IF Len(updates) = 0
    THEN Failure("update() requires at least one field to update", db)
    ELSE SqlUpdate(db, UpdateStatement(repo, criteria, updates).sql,
                   UpdateStatement(repo, criteria, updates).params)

\* delete that leaves the WHERE keyword out when there are no criteria
DeleteWithoutWhere(repo, db, criteria) ==
    LET q == CompileDelete(CompilerMeta(repo, FALSE), NormalizeCriteria(repo, criteria))
    IN  IF Len(criteria) > 0 THEN SqlDelete(db, q.sql, q.params)
        ELSE IF ~HasTable(db, repo.tableName) THEN Failure("no such table", db)
        ELSE Success(Num(Len(db[repo.tableName].rows)),
                     [db EXCEPT ![repo.tableName].rows = <<>>])

\* delete(criteria)
Delete(repo, db, criteria) ==
    LET q == CompileDelete(CompilerMeta(repo, FALSE), NormalizeCriteria(repo, criteria))
    IN SqlDelete(db, q.sql, q.params)

\* deleteById that keys the criteria on the last column's property
DeleteByIdOfLastColumn(repo, db, id) ==
    IF repo.primaryKey = NoPrimaryKey THEN Failure("no primary key defined", db)
    ELSE Delete(repo, db, <<(<<repo.columns[Len(repo.columns)].property, id>>)>>)

\* deleteById(id)
DeleteById(repo, db, id) ==
    IF repo.primaryKey = NoPrimaryKey THEN Failure("no primary key defined", db)
    ELSE Delete(repo, db, <<(<<repo.primaryKey, id>>)>>)

\* count()
Count(repo, db) == SqlCount(db, CompileCount(CompilerMeta(repo, FALSE)))

-----------------------------------------------------------------------------
(* EntityManager                                                           *)

\* getRepository that constructs a Repository on every call
GetRepositoryUncached(cache, md, db, entity) ==
    LET new == NewRepository(md, entity, db)
    IN IF new.ok
       THEN [ok |-> TRUE, error |-> "", value |-> new.value,
             cache |-> [cache EXCEPT ![entity] = new.value]]
       ELSE [ok |-> FALSE, error |-> new.error, value |-> NoRepository,
             cache |-> cache]

\* getRepository(entity): the cache afterwards and the repository returned
GetRepository(cache, md, db, entity) ==
    IF cache[entity] # NoRepository
    THEN [ok |-> TRUE, error |-> "", value |-> cache[entity], cache |-> cache]
    ELSE LET new == NewRepository(md, entity, db)
         IN IF new.ok
            THEN [ok |-> TRUE, error |-> "", value |-> new.value,
                  cache |-> [cache EXCEPT ![entity] = new.value]]
            ELSE [ok |-> FALSE, error |-> new.error, value |-> NoRepository,
                  cache |-> cache]

\* db.inTransaction: some enclosing db.transaction() began a transaction
InTransaction(stack) == \E i \in 1..Len(stack) : stack[i].kind # "none"

\* transaction(callback) calling callback(this) without db.transaction
TransactionFrameUnwrapped(stack, db) ==
    [kind |-> "none", before |-> db, saved |-> {}]

\* transaction(callback): this.db.transaction(() => callback(this))() issues
\* BEGIN, or SAVEPOINT inside a transaction, before it runs the callback
TransactionFrame(stack, db) ==
    [kind |-> IF InTransaction(stack) THEN "savepoint" ELSE "begin",
     before |-> db, saved |-> {}]

\* The end of a transaction that drops the callback's return value
TransactionEndNoValue(frame, db, file, returned, thrown) ==
    IF thrown = ""
    THEN [ok |-> TRUE, error |-> "", value |-> Undefined, working |-> db,
          durable |-> IF frame.kind = "begin" THEN db ELSE file]
    ELSE [ok |-> FALSE, error |-> thrown, value |-> Undefined,
          working |-> IF frame.kind = "none" THEN db ELSE frame.before,
          durable |-> file]

\* The end of a transaction that rethrows without ROLLBACK
TransactionEndKeepingWrites(frame, db, file, returned, thrown) ==
    IF thrown = ""
    THEN [ok |-> TRUE, error |-> "", value |-> returned, working |-> db,
          durable |-> IF frame.kind = "begin" THEN db ELSE file]
    ELSE [ok |-> FALSE, error |-> thrown, value |-> Undefined,
          working |-> db, durable |-> IF frame.kind = "begin" THEN db ELSE file]

\* The end of transaction(callback): COMMIT or RELEASE when the callback
\* returned, ROLLBACK [TO] and rethrow when it threw (thrown # "")
TransactionEnd(frame, db, file, returned, thrown) ==
    IF thrown = ""
    THEN [ok |-> TRUE, error |-> "", value |-> returned, working |-> db,
          durable |-> IF frame.kind = "begin" THEN db ELSE file]
    ELSE [ok |-> FALSE, error |-> thrown, value |-> Undefined,
          working |-> IF frame.kind = "none" THEN db ELSE frame.before,
          durable |-> file]

-----------------------------------------------------------------------------
(* DataSource                                                              *)

\* TYPE_MAP[col.type.name] || 'TEXT'
TypeMap(typeName) ==
    CASE typeName = "Number" -> "INTEGER"
      [] typeName = "Boolean" -> "INTEGER"
      [] OTHER -> "TEXT"

\* The CREATE TABLE statement synchronizeSchema builds for one entity
CreateStatement(tableName, columns) ==
    [kind |-> "create", table |-> tableName,
     columns |-> [i \in 1..Len(columns) |->
                    [name |-> columns[i].column,
                     sqlType |-> TypeMap(columns[i].type),
                     primaryKey |-> columns[i].isPrimary,
                     autoincrement |-> columns[i].isPrimary]]]

\* synchronizeSchema without the try/catch around each entity
RECURSIVE SynchronizeSchemaAborting(_, _, _)
SynchronizeSchemaAborting(md, db, entities) ==
    IF Len(entities) = 0 THEN db
    ELSE LET entity == Head(entities)
         IN IF GetTableName(md, entity).ok /\ GetColumnMetadata(md, entity).ok
               /\ SqlCreate(db, CreateStatement(GetTableName(md, entity).value,
                                                GetColumnMetadata(md, entity).value)).ok
            THEN SynchronizeSchemaAborting(md,
                    SqlCreate(db, CreateStatement(GetTableName(md, entity).value,
                                                  GetColumnMetadata(md, entity).value)).db,
                    Tail(entities))
            ELSE db

\* synchronizeSchema(): one try/catch per entity of options.entities
RECURSIVE SynchronizeSchema(_, _, _)
SynchronizeSchema(md, db, entities) ==
    IF Len(entities) = 0 THEN db
    ELSE LET entity == Head(entities)
             next ==
                IF GetTableName(md, entity).ok /\ GetColumnMetadata(md, entity).ok
                THEN SqlCreate(db, CreateStatement(GetTableName(md, entity).value,
                                                   GetColumnMetadata(md, entity).value)).db
                ELSE db
         IN SynchronizeSchema(md, next, Tail(entities))

\* new DataSource(options): no connection, a manager holding null
NewDataSource == [db |-> 0, isInitialized |-> FALSE, mgrDb |-> 0]

\* initialize() without its `if (this.isInitialized) return this`
InitializeAgain(ds, options, md, file, conn, opens) ==
    IF ~opens
    THEN [ok |-> FALSE, error |-> "Failed to initialize DataSource", value |-> Undefined,
          ds |-> ds, file |-> file, opened |-> FALSE]
    ELSE [ok |-> TRUE, error |-> "", value |-> Undefined,
          ds |-> [db |-> conn, isInitialized |-> TRUE, mgrDb |-> conn],
          file |-> IF options.synchronize
                   THEN SynchronizeSchema(md, file, options.entities) ELSE file,
          opened |-> TRUE]

\* initialize(): `new Database(options.dbPath)` opens connection conn, or
\* throws (~opens); file is the database file before and after
Initialize(ds, options, md, file, conn, opens) ==
    IF ds.isInitialized
    THEN [ok |-> TRUE, error |-> "", value |-> Undefined, ds |-> ds, file |-> file,
          opened |-> FALSE]
    ELSE IF ~opens
    THEN [ok |-> FALSE, error |-> "Failed to initialize DataSource", value |-> Undefined,
          ds |-> ds, file |-> file, opened |-> FALSE]
    ELSE [ok |-> TRUE, error |-> "", value |-> Undefined,
          ds |-> [db |-> conn, isInitialized |-> TRUE, mgrDb |-> conn],
          file |-> IF options.synchronize
                   THEN SynchronizeSchema(md, file, options.entities) ELSE file,
          opened |-> TRUE]

\* destroy() that closes the connection and leaves the flag as it is
DestroyKeepingFlag(ds) ==
    IF ds.db # 0 THEN [db |-> 0, isInitialized |-> ds.isInitialized, mgrDb |-> ds.mgrDb]
    ELSE ds

\* destroy(): the manager keeps the connection it was given
Destroy(ds) ==
    IF ds.db # 0 THEN [db |-> 0, isInitialized |-> FALSE, mgrDb |-> ds.mgrDb] ELSE ds

\* DataSource.getRepository without its isInitialized check
DsGetRepositoryUnguarded(ds, cache, md, entity) ==
    GetRepository(cache, md, ds.mgrDb, entity)

\* DataSource.getRepository(entity)
DsGetRepository(ds, cache, md, entity) ==
    IF ~ds.isInitialized
    THEN [ok |-> FALSE, error |-> "DataSource not initialized", value |-> NoRepository,
          cache |-> cache]
    ELSE GetRepository(cache, md, ds.mgrDb, entity)

-----------------------------------------------------------------------------
(* The program: the entities it declares and the calls it makes            *)

\* Metadata after one @Column property decorator, then another, then @Entity
Declare(md, target, tableName, c1, c2) ==
    LET m1 == ColumnDecorator(md, target, c1[1], c1[2], c1[3]).md
        m2 == ColumnDecorator(m1, target, c2[1], c2[2], c2[3]).md
    IN EntityDecorator(m2, target, tableName).md

\* User as in examples.ts (its key column renamed), A and B with columns
\* named as their properties; T is not decorated
DeclaredMetadata ==
    LET m1 == Declare(EmptyMetadata, "User", <<"u">>,
                      <<"id", "user_id", TRUE>>, <<"username", "", FALSE>>)
        m2 == Declare(m1, "A", <<"a">>, <<"id", "", TRUE>>, <<"name", "", FALSE>>)
    IN Declare(m2, "B", <<"b">>, <<"id", "", TRUE>>, <<"isActive", "", FALSE>>)

\* options.entities
OptionEntities == <<"User", "A", "B">>

\* The instances the program saves
Instances(c) ==
    CASE c = "A" -> {[id |-> Num(i), name |-> Str(s)] : i \in {1, 2}, s \in {"x", "y"}}
      [] c = "B" -> {[id |-> Num(1), isActive |-> Bool(b)] : b \in BOOLEAN}
      [] c = "User" -> {[id |-> Num(1), username |-> Str("x")]}
      [] OTHER -> {[id |-> Num(1)]}

\* The criteria the program queries by: Partial<T>, keys in insertion order
CriteriaOf(c) ==
    CASE c = "A" -> {<<>>, <<(<<"id", Num(2)>>)>>, <<(<<"name", Str("x")>>)>>,
                     <<(<<"name", Str("y")>>), (<<"id", Num(1)>>)>>}
      [] c = "B" -> {<<>>, <<(<<"isActive", Bool(TRUE)>>)>>}
      [] c = "User" -> {<<>>, <<(<<"id", Num(1)>>)>>}
      [] OTHER -> {<<>>}

\* The update maps the program passes to update(criteria, updates)
UpdatesOf(c) ==
    CASE c = "A" -> {<<>>, <<(<<"name", Str("y")>>)>>}
      [] c = "B" -> {<<>>, <<(<<"isActive", Bool(FALSE)>>)>>}
      [] OTHER -> {<<>>}

IdsOf(c) == IF c = "A" THEN {Num(1), Num(2)} ELSE {Num(1)}

ReturnValues == {Undefined, Str("done")}
ThrownErrors == {"Intentional error"}

-----------------------------------------------------------------------------
(* State and actions                                                       *)

\* The connection is open: DataSource holds the only one and closes it
ConnectionOpen(c) == c # 0 /\ c = dsDb

\* What a Repository method throws before it reaches this.db.prepare
ThrownBeforePrepare ==
    {"no primary key defined", "Entity does not match expected shape",
     "update() requires at least one field to update"}

\* A statement prepared on a closed connection throws, and so does
\* this.db.prepare on the null a manager holds before initialize()
OnConnection(repo, result) ==
    IF result.error \in ThrownBeforePrepare \/ ConnectionOpen(repo.db) THEN result
    ELSE IF repo.db = 0
    THEN Failure("Cannot read properties of null (reading 'prepare')", working)
    ELSE Failure("The database connection is not open", working)

\* The record of a finished call: `before` is the connection's view when it
\* began; thrown, returned and saved are what a transaction's callback did
Called(op, entity, arg, r) ==
    [op |-> op, entity |-> entity, arg |-> arg, ok |-> r.ok, error |-> r.error,
     value |-> r.value, before |-> working,
     thrown |-> "", returned |-> Undefined, saved |-> {}]

NoCall == [op |-> "none", entity |-> "", arg |-> <<>>, ok |-> TRUE, error |-> "",
           value |-> Undefined, before |-> EmptyDatabase,
           thrown |-> "", returned |-> Undefined, saved |-> {}]

HasRepository(c) == repositoryCache[c] # NoRepository

\* A save that succeeded inside a transaction is noted on the innermost frame
NoteWrite(c, arg, r, isSave) ==
    IF txStack = <<>> THEN txStack
    ELSE [txStack EXCEPT ![Len(txStack)] =
            [@ EXCEPT !.saved = IF isSave /\ r.ok THEN @ \cup {<<c, arg>>} ELSE @]]

\* A statement that ran: autocommitted unless a transaction is open
Written(c, arg, r, isSave) ==
    /\ working' = r.db
    /\ durable' = IF InTransaction(txStack) THEN durable ELSE r.db
    /\ txStack' = NoteWrite(c, arg, r, isSave)

Init ==
    /\ metadata = DeclaredMetadata
    /\ dsDb = 1
    /\ isInitialized = TRUE
    /\ nextConn = 2
    /\ mgrDb = 1
    /\ repositoryCache = [c \in Classes |-> NoRepository]
    /\ durable = SynchronizeSchema(DeclaredMetadata, EmptyDatabase, OptionEntities)
    /\ working = durable
    /\ txStack = <<>>
    /\ lastCall = NoCall

\* manager.getRepository(c)
CallGetRepository(c) ==
    LET r == GetRepository(repositoryCache, metadata, mgrDb, c)
    IN /\ repositoryCache' = r.cache
       /\ lastCall' = Called("getRepository", c, <<>>, r)
       /\ UNCHANGED <<metadata, dsDb, isInitialized, nextConn, mgrDb, durable,
                      working, txStack>>

Read(op, c, arg, r) ==
    /\ HasRepository(c)
    /\ lastCall' = Called(op, c, arg, OnConnection(repositoryCache[c], r))
    /\ UNCHANGED <<metadata, dsDb, isInitialized, nextConn, mgrDb, repositoryCache,
                   durable, working, txStack>>

CallFind(c) == Read("find", c, <<>>, Find(repositoryCache[c], working))

CallFindBy(c, criteria) ==
    Read("findBy", c, criteria, FindBy(repositoryCache[c], working, criteria))

CallFindOneBy(c, criteria) ==
    Read("findOneBy", c, criteria, FindOneBy(repositoryCache[c], working, criteria))

CallFindById(c, id) ==
    Read("findById", c, id, FindById(repositoryCache[c], working, id))

CallCount(c) == Read("count", c, <<>>, Count(repositoryCache[c], working))

Write(op, c, arg, r, isSave) ==
    /\ HasRepository(c)
    /\ LET done == OnConnection(repositoryCache[c], r)
       IN /\ lastCall' = Called(op, c, arg, done)
          /\ Written(c, arg, done, isSave)
    /\ UNCHANGED <<metadata, dsDb, isInitialized, nextConn, mgrDb, repositoryCache>>

CallSave(c, entity) ==
    Write("save", c, entity, Save(repositoryCache[c], working, entity), TRUE)

CallUpdate(c, criteria, updates) ==
    Write("update", c, <<criteria, updates>>,
          Update(repositoryCache[c], working, criteria, updates), FALSE)

CallDelete(c, criteria) ==
    Write("delete", c, criteria, Delete(repositoryCache[c], working, criteria), FALSE)

CallDeleteById(c, id) ==
    Write("deleteById", c, id, DeleteById(repositoryCache[c], working, id), FALSE)

\* manager.save(entity): getRepository(entity.constructor), then save
CallManagerSave(c, entity) ==
    LET got == GetRepository(repositoryCache, metadata, mgrDb, c)
        done == IF got.ok THEN OnConnection(got.value, Save(got.value, working, entity))
                ELSE Failure(got.error, working)
    IN /\ repositoryCache' = got.cache
       /\ lastCall' = Called("manager.save", c, entity, done)
       /\ Written(c, entity, done, TRUE)
       /\ UNCHANGED <<metadata, dsDb, isInitialized, nextConn, mgrDb>>

\* manager.transaction(callback) is entered: the callback starts to run
TransactionBegin ==
    /\ Len(txStack) < MaxDepth
    /\ ConnectionOpen(mgrDb)
    /\ txStack' = Append(txStack, TransactionFrame(txStack, working))
    /\ UNCHANGED <<metadata, dsDb, isInitialized, nextConn, mgrDb, repositoryCache,
                   durable, working, lastCall>>

\* The callback of the innermost transaction returns a value or throws; the
\* call is recorded with its depth, 1 for an outermost call
TransactionFinish(returned, thrown) ==
    /\ txStack # <<>>
    /\ LET frame == txStack[Len(txStack)]
           rest == SubSeq(txStack, 1, Len(txStack) - 1)
           end == TransactionEnd(frame, working, durable, returned, thrown)
       IN /\ working' = end.working
          /\ durable' = end.durable
          /\ txStack' = IF rest = <<>> THEN rest
                        ELSE [rest EXCEPT ![Len(rest)] =
                                [@ EXCEPT !.saved = IF thrown = ""
                                                    THEN @ \cup frame.saved ELSE @]]
          /\ lastCall' = [Called("transaction", "", Len(txStack), end) EXCEPT
                            !.before = frame.before,
                            !.thrown = thrown,
                            !.returned = returned,
                            !.saved = frame.saved]
    /\ UNCHANGED <<metadata, dsDb, isInitialized, nextConn, mgrDb, repositoryCache>>

CallbackReturns(v) == TransactionFinish(v, "")

CallbackThrows(e) == TransactionFinish(Undefined, e)

\* Repository calls on the declared entities, each statement autocommitted
Next ==
    \/ \E c \in Classes : CallGetRepository(c)
    \/ \E c \in Classes : CallFind(c)
    \/ \E c \in Classes : \E criteria \in CriteriaOf(c) : CallFindBy(c, criteria)
    \/ \E c \in Classes : \E criteria \in CriteriaOf(c) : CallFindOneBy(c, criteria)
    \/ \E c \in Classes : \E id \in IdsOf(c) : CallFindById(c, id)
    \/ \E c \in Classes : CallCount(c)
    \/ \E c \in Classes : \E entity \in Instances(c) : CallSave(c, entity)
    \/ \E c \in Classes : \E criteria \in CriteriaOf(c) : \E updates \in UpdatesOf(c) :
          CallUpdate(c, criteria, updates)
    \/ \E c \in Classes : \E criteria \in CriteriaOf(c) : CallDelete(c, criteria)
    \/ \E c \in Classes : \E id \in IdsOf(c) : CallDeleteById(c, id)
    \/ \E c \in Classes : \E entity \in Instances(c) : CallManagerSave(c, entity)

Spec == Init /\ [][Next]_vars

-----------------------------------------------------------------------------
(* Transactions: the program holds the repositories of A and B and saves   *)
(* and deletes inside and outside manager.transaction(callback)            *)

TxClasses == {"A", "B"}

TxInstances(c) ==
    IF c = "A" THEN {[id |-> Num(i), name |-> Str("x")] : i \in {1, 2}}
    ELSE {[id |-> Num(1), isActive |-> Bool(TRUE)]}

InitTx ==
    /\ metadata = DeclaredMetadata
    /\ dsDb = 1
    /\ isInitialized = TRUE
    /\ nextConn = 2
    /\ mgrDb = 1
    /\ repositoryCache =
          LET c0 == [c \in Classes |-> NoRepository]
              c1 == GetRepository(c0, DeclaredMetadata, 1, "A").cache
          IN GetRepository(c1, DeclaredMetadata, 1, "B").cache
    /\ durable = SynchronizeSchema(DeclaredMetadata, EmptyDatabase, OptionEntities)
    /\ working = durable
    /\ txStack = <<>>
    /\ lastCall = NoCall

NextTx ==
    \/ \E c \in TxClasses : \E entity \in TxInstances(c) : CallSave(c, entity)
    \/ \E c \in TxClasses : \E id \in IdsOf(c) : CallDeleteById(c, id)
    \/ TransactionBegin
    \/ \E v \in ReturnValues : CallbackReturns(v)
    \/ \E e \in ThrownErrors : CallbackThrows(e)

SpecTx == InitTx /\ [][NextTx]_vars

-----------------------------------------------------------------------------
(* Declaration: the decorators of one class declaration run, its property  *)
(* decorators before its class decorator, and repositories are asked for   *)

\* The class the decorators are applied to and its decorated properties
Declared == "T"
DeclaredProperties == {"id", "email"}

\* Every table name of at most MaxNameLen characters
TableNames == UNION {[1..n -> NameChar] : n \in 0..MaxNameLen}

InitMeta ==
    /\ metadata = EmptyMetadata
    /\ dsDb = 1
    /\ isInitialized = TRUE
    /\ nextConn = 2
    /\ mgrDb = 1
    /\ repositoryCache = [c \in Classes |-> NoRepository]
    /\ durable = EmptyDatabase
    /\ working = EmptyDatabase
    /\ txStack = <<>>
    /\ lastCall = NoCall

\* @Column(columnName, isPrimary) on a property not decorated yet
ApplyColumn(propertyKey, columnName, isPrimary) ==
    /\ metadata.table[Declared] = NoTableName
    /\ \A i \in 1..Len(metadata.columns[Declared]) :
          metadata.columns[Declared][i].property # propertyKey
    /\ LET r == ColumnDecorator(metadata, Declared, propertyKey, columnName, isPrimary)
       IN /\ metadata' = r.md
          /\ lastCall' = [NoCall EXCEPT !.op = "Column", !.entity = Declared,
                                        !.arg = <<propertyKey, columnName, isPrimary>>,
                                        !.ok = r.ok, !.error = r.error]
    /\ UNCHANGED <<dsDb, isInitialized, nextConn, mgrDb, repositoryCache, durable,
                   working, txStack>>

\* @Entity(tableName) on the class, not registered yet
ApplyEntity(tableName) ==
    /\ metadata.table[Declared] = NoTableName
    /\ LET r == EntityDecorator(metadata, Declared, tableName)
       IN /\ metadata' = r.md
          /\ lastCall' = [NoCall EXCEPT !.op = "Entity", !.entity = Declared,
                                        !.arg = tableName,
                                        !.ok = r.ok, !.error = r.error]
    /\ UNCHANGED <<dsDb, isInitialized, nextConn, mgrDb, repositoryCache, durable,
                   working, txStack>>

NextMeta ==
    \/ \E p \in DeclaredProperties : \E name \in {"", "user_id"} :
          \E isPrimary \in BOOLEAN : ApplyColumn(p, name, isPrimary)
    \/ \E name \in TableNames : ApplyEntity(name)
    \/ \E c \in {Declared, "A"} : CallGetRepository(c)

SpecMeta == InitMeta /\ [][NextMeta]_vars

-----------------------------------------------------------------------------
(* Nested transactions: a callback calls manager.transaction again and     *)
(* goes on when the inner call has thrown (it caught the error)            *)

NestInstances(c) ==
    IF c = "A" THEN {[id |-> Num(1), name |-> Str("x")]}
    ELSE {[id |-> Num(1), isActive |-> Bool(TRUE)]}

\* manager.transaction(callback), from inside a callback as well
TransactionBeginNested ==
    /\ Len(txStack) < MaxNesting
    /\ ConnectionOpen(mgrDb)
    /\ txStack' = Append(txStack, TransactionFrame(txStack, working))
    /\ UNCHANGED <<metadata, dsDb, isInitialized, nextConn, mgrDb, repositoryCache,
                   durable, working, lastCall>>

NextNest ==
    \/ \E c \in TxClasses : \E entity \in NestInstances(c) : CallSave(c, entity)
    \/ TransactionBeginNested
    \/ \E v \in ReturnValues : CallbackReturns(v)
    \/ \E e \in ThrownErrors : CallbackThrows(e)

SpecNest == InitTx /\ [][NextNest]_vars

-----------------------------------------------------------------------------
(* One manager, transaction after transaction: each frame also notes        *)
(* whether the call before it on this manager was a transaction that threw *)

\* manager.transaction(callback) is entered
TransactionBeginAfter ==
    /\ Len(txStack) < MaxDepth
    /\ ConnectionOpen(mgrDb)
    /\ txStack' = Append(txStack,
                         [kind |-> TransactionFrame(txStack, working).kind,
                          before |-> TransactionFrame(txStack, working).before,
                          saved |-> TransactionFrame(txStack, working).saved,
                          afterFailure |-> lastCall.op = "transaction"
                                             /\ lastCall.thrown # ""])
    /\ UNCHANGED <<metadata, dsDb, isInitialized, nextConn, mgrDb, repositoryCache,
                   durable, working, lastCall>>

NextRetry ==
    \/ \E c \in TxClasses : \E entity \in TxInstances(c) : CallSave(c, entity)
    \/ TransactionBeginAfter
    \/ \E v \in ReturnValues : CallbackReturns(v)
    \/ \E e \in ThrownErrors : CallbackThrows(e)

SpecRetry == InitTx /\ [][NextRetry]_vars

-----------------------------------------------------------------------------
(* The Repository's pure steps: values converted for storage and back, and *)
(* the statements compiled for criteria and update maps, whose keys are    *)
(* whatever the caller's object has                                        *)

ColumnTypes == {"Boolean", "Date", "Number", "String", "Object"}

\* A column of the given design:type
ColumnOfType(type) ==
    [property |-> "p", column |-> "p", type |-> type, isPrimary |-> FALSE]

Texts == {"", "x", "1", "true", "1970-01-01T00:00:00.007Z"}

\* The non-null values of a column's kind
ValuesOfKind(type) ==
    CASE type = "Boolean" -> {Bool(b) : b \in BOOLEAN}
      [] type = "Date" -> {Date(ms) : ms \in 0..MaxInstant}
      [] type = "Number" -> {Num(n) : n \in (0 - MaxInteger)..MaxInteger}
      [] OTHER -> {Str(t) : t \in Texts}

\* toDbValue(column, value)
ApplyToDbValue(type, value) ==
    /\ lastCall' = [NoCall EXCEPT !.op = "toDbValue", !.entity = type, !.arg = value,
                                  !.value = ToDbValue(ColumnOfType(type), value)]
    /\ UNCHANGED <<metadata, dsDb, isInitialized, nextConn, mgrDb, repositoryCache,
                   durable, working, txStack>>

\* fromDbValue(column, raw) of what the engine stored for the converted value
ApplyFromDbValue ==
    /\ lastCall.op = "toDbValue"
    /\ lastCall' = [lastCall EXCEPT
                      !.op = "fromDbValue",
                      !.returned = lastCall.value,
                      !.value = FromDbValue(ColumnOfType(lastCall.entity),
                                            Bound(lastCall.value))]
    /\ UNCHANGED <<metadata, dsDb, isInitialized, nextConn, mgrDb, repositoryCache,
                   durable, working, txStack>>

\* toDbValue(column, value) of null and of undefined
ApplyToDbValueOfNullish(type, value) ==
    /\ lastCall' = [NoCall EXCEPT !.op = "toDbValue(nullish)", !.entity = type,
                                  !.arg = value,
                                  !.value = ToDbValue(ColumnOfType(type), value)]
    /\ UNCHANGED <<metadata, dsDb, isInitialized, nextConn, mgrDb, repositoryCache,
                   durable, working, txStack>>

\* What a column of a row may hold: NULL, integers and texts; a column the
\* row lacks reads as undefined
StoredValues ==
    {Null, Undefined} \cup {Num(n) : n \in (0 - MaxInteger)..MaxInteger}
      \cup {Str(t) : t \in Texts}

\* fromDbValue(column, raw) of a stored value, whichever statement wrote it
Hydrate(type, raw) ==
    /\ lastCall' = [NoCall EXCEPT !.op = "hydrate", !.entity = type, !.arg = raw,
                                  !.value = FromDbValue(ColumnOfType(type), raw)]
    /\ UNCHANGED <<metadata, dsDb, isInitialized, nextConn, mgrDb, repositoryCache,
                   durable, working, txStack>>

\* The keys of a caller's criteria or update object: declared properties and
\* one that no column declares
KeysOf(c) ==
    {metadata.columns[c][i].property : i \in 1..Len(metadata.columns[c])} \cup {"nickname"}

\* Objects of one or two entries with distinct keys
ObjectsOf(c) ==
    {<<(<<k, Num(1)>>)>> : k \in KeysOf(c)}
      \cup {<<(<<ks[1], Num(1)>>), (<<ks[2], Str("x")>>)>> :
               ks \in {p \in KeysOf(c) \X KeysOf(c) : p[1] # p[2]}}

\* The repository getRepository(c) constructs
RepositoryOf(c) == NewRepository(metadata, c, mgrDb).value

\* The statement a call compiles, recorded with the call
Compiled(op, c, arg, statement) ==
    /\ lastCall' = [NoCall EXCEPT !.op = op, !.entity = c, !.arg = arg,
                                  !.value = statement.sql, !.returned = statement.params]
    /\ UNCHANGED <<metadata, dsDb, isInitialized, nextConn, mgrDb, repositoryCache,
                   durable, working, txStack>>

\* findBy, findOneBy: normalizeCriteria, then compileSelect
CompileFindBy(c, criteria) ==
    Compiled("compileSelect", c, criteria,
             CompileSelect(CompilerMeta(RepositoryOf(c), FALSE),
                           NormalizeCriteria(RepositoryOf(c), criteria)))

\* delete: normalizeCriteria, then compileDelete
CompileDeleteOf(c, criteria) ==
    Compiled("compileDelete", c, criteria,
             CompileDelete(CompilerMeta(RepositoryOf(c), FALSE),
                           NormalizeCriteria(RepositoryOf(c), criteria)))

\* update: the statement it builds
BuildUpdate(c, criteria, updates) ==
    Compiled("updateStatement", c, <<criteria, updates>>,
             UpdateStatement(RepositoryOf(c), criteria, updates))

FnClasses == {"A", "User"}

NextFn ==
    \/ \E type \in ColumnTypes : \E v \in ValuesOfKind(type) : ApplyToDbValue(type, v)
    \/ ApplyFromDbValue
    \/ \E type \in ColumnTypes : \E v \in {Null, Undefined} : ApplyToDbValueOfNullish(type, v)
    \/ \E type \in ColumnTypes : \E raw \in StoredValues : Hydrate(type, raw)
    \/ \E c \in FnClasses : \E criteria \in ObjectsOf(c) : CompileFindBy(c, criteria)
    \/ \E c \in FnClasses : \E criteria \in ObjectsOf(c) : CompileDeleteOf(c, criteria)
    \/ \E c \in FnClasses : \E criteria \in ObjectsOf(c) : \E updates \in ObjectsOf(c) :
          BuildUpdate(c, criteria, updates)

SpecFn == Init /\ [][NextFn]_vars

-----------------------------------------------------------------------------
(* An existing database file: options.dbPath names a file written under an *)
(* older schema, whose table CREATE TABLE IF NOT EXISTS leaves as it is,   *)
(* and the program reads entities of A from it                             *)

KeyColumn(name) ==
    [name |-> name, sqlType |-> "INTEGER", primaryKey |-> TRUE, autoincrement |-> TRUE]

PlainColumn(name, sqlType) ==
    [name |-> name, sqlType |-> sqlType, primaryKey |-> FALSE, autoincrement |-> FALSE]

\* No file yet; table a without the column name; table a whose column name
\* is an INTEGER column holding a number; table u as synchronizeSchema
\* creates it, with a row
ExistingFiles ==
    {EmptyDatabase,
     (<<"a">> :> [columns |-> <<KeyColumn("id")>>, rows |-> <<[id |-> Num(1)]>>]),
     (<<"a">> :> [columns |-> <<KeyColumn("id"), PlainColumn("name", "INTEGER")>>,
                  rows |-> <<[id |-> Num(1), name |-> Num(5)]>>]),
     (<<"u">> :> [columns |-> <<KeyColumn("user_id"), PlainColumn("username", "TEXT")>>,
                  rows |-> <<[user_id |-> Num(1), username |-> Str("x")]>>])}

InitRows ==
    /\ metadata = DeclaredMetadata
    /\ dsDb = 1
    /\ isInitialized = TRUE
    /\ nextConn = 2
    /\ mgrDb = 1
    /\ repositoryCache = [c \in Classes |-> NoRepository]
    /\ durable \in {SynchronizeSchema(DeclaredMetadata, file, OptionEntities) :
                       file \in ExistingFiles}
    /\ working = durable
    /\ txStack = <<>>
    /\ lastCall = NoCall

RowsClasses == {"A", "B", "User"}

NextRows ==
    \/ \E c \in RowsClasses : CallGetRepository(c)
    \/ \E c \in RowsClasses : \E entity \in Instances(c) : CallSave(c, entity)
    \/ \E c \in RowsClasses : CallFind(c)
    \/ \E c \in RowsClasses : \E criteria \in CriteriaOf(c) : CallFindBy(c, criteria)
    \/ \E c \in RowsClasses : \E criteria \in CriteriaOf(c) : CallFindOneBy(c, criteria)
    \/ \E c \in RowsClasses : \E id \in IdsOf(c) : CallFindById(c, id)

SpecRows == InitRows /\ [][NextRows]_vars

-----------------------------------------------------------------------------
(* The DataSource: constructed, initialized, destroyed and initialized     *)
(* again, while the program keeps the repositories it was given and runs   *)
(* transactions on dataSource.manager                                      *)

\* options of the DataSource: T is listed between A and B
DsOptions == [synchronize |-> TRUE, entities |-> <<"A", "T", "B">>]

\* T declared without a primary column, with a text primary column (its
\* CREATE TABLE fails on AUTOINCREMENT), or not decorated at all
DsMetadata(variant) ==
    CASE variant = "keyless" ->
            Declare(DeclaredMetadata, "T", <<"t">>,
                    <<"id", "", FALSE>>, <<"email", "", FALSE>>)
      [] variant = "textKey" ->
            Declare(DeclaredMetadata, "T", <<"t">>,
                    <<"email", "", TRUE>>, <<"id", "", FALSE>>)
      [] OTHER -> DeclaredMetadata

DsClasses == {"A", "T"}

DsInstances(c) ==
    IF c = "A" THEN {[id |-> Num(1), name |-> Str("x")]}
    ELSE {[id |-> Num(1), email |-> Str("e")]}

\* The rows the class's table holds, 0 when there is no such table
RowCount(c) ==
    IF HasTable(working, metadata.table[c]) THEN Len(working[metadata.table[c]].rows)
    ELSE 0

InitDs ==
    /\ metadata \in {DsMetadata(v) : v \in {"keyless", "textKey", "undecorated"}}
    /\ dsDb = NewDataSource.db
    /\ isInitialized = NewDataSource.isInitialized
    /\ nextConn = 1
    /\ mgrDb = NewDataSource.mgrDb
    /\ repositoryCache = [c \in Classes |-> NoRepository]
    /\ durable = EmptyDatabase
    /\ working = EmptyDatabase
    /\ txStack = <<>>
    /\ lastCall = NoCall

\* The DataSource as a record of its fields
DataSourceNow == [db |-> dsDb, isInitialized |-> isInitialized, mgrDb |-> mgrDb]

\* dataSource.initialize()
CallInitialize(opens) ==
    /\ txStack = <<>>
    /\ isInitialized \/ ~opens \/ nextConn <= MaxConnections
    /\ LET r == Initialize(DataSourceNow, DsOptions, metadata, durable, nextConn, opens)
       IN /\ dsDb' = r.ds.db
          /\ isInitialized' = r.ds.isInitialized
          /\ mgrDb' = r.ds.mgrDb
          /\ nextConn' = IF r.opened THEN nextConn + 1 ELSE nextConn
          /\ durable' = r.file
          /\ working' = r.file
          /\ lastCall' = Called("initialize", "",
                                [wasInitialized |-> isInitialized, opens |-> opens], r)
    /\ UNCHANGED <<metadata, repositoryCache, txStack>>

\* dataSource.destroy()
CallDestroy ==
    /\ txStack = <<>>
    /\ dsDb' = Destroy(DataSourceNow).db
    /\ isInitialized' = Destroy(DataSourceNow).isInitialized
    /\ mgrDb' = Destroy(DataSourceNow).mgrDb
    /\ lastCall' = Called("destroy", "", [wasInitialized |-> isInitialized],
                          Success(Undefined, working))
    /\ UNCHANGED <<metadata, nextConn, repositoryCache, durable, working, txStack>>

\* dataSource.getRepository(c)
CallDsGetRepository(c) ==
    LET r == DsGetRepository(DataSourceNow, repositoryCache, metadata, c)
    IN /\ repositoryCache' = r.cache
       /\ lastCall' = Called("ds.getRepository", c, <<>>, r)
       /\ UNCHANGED <<metadata, dsDb, isInitialized, nextConn, mgrDb, durable,
                      working, txStack>>

NextDs ==
    \/ \E opens \in BOOLEAN : CallInitialize(opens)
    \/ CallDestroy
    \/ \E c \in DsClasses : CallDsGetRepository(c)
    \/ \E c \in DsClasses : CallGetRepository(c)
    \/ \E c \in DsClasses : \E entity \in DsInstances(c) :
          RowCount(c) < MaxRows /\ CallSave(c, entity)
    \/ \E c \in DsClasses : \E entity \in DsInstances(c) :
          RowCount(c) < MaxRows /\ CallManagerSave(c, entity)
    \/ \E c \in DsClasses : \E id \in IdsOf(c) : CallFindById(c, id)
    \/ \E c \in DsClasses : \E id \in IdsOf(c) : CallDeleteById(c, id)
    \/ TransactionBegin
    \/ CallbackReturns(Undefined)
    \/ \E e \in ThrownErrors : CallbackThrows(e)

SpecDs == InitDs /\ [][NextDs]_vars

-----------------------------------------------------------------------------
(* Properties                                                              *)

\* The rows of a class's table in a database, none when it has no table
RowsOf(db, c) ==
    IF HasTable(db, metadata.table[c]) THEN db[metadata.table[c]].rows ELSE <<>>

\* Some row of the class's table holds exactly this instance's values
Persisted(db, c, instance) ==
    \E i \in 1..Len(RowsOf(db, c)) :
        MapRowToEntity(repositoryCache[c], RowsOf(db, c)[i]) = instance

\* The rows of the class's table whose primary-key property has this value
RowsWithKey(db, c, id) ==
    SelectSeq(RowsOf(db, c),
              LAMBDA row : MapRowToEntity(repositoryCache[c], row)[metadata.primary[c]] = id)

\* A row read back as an instance satisfies every criterion
Satisfies(c, row, criteria) ==
    \A i \in 1..Len(criteria) :
        MapRowToEntity(repositoryCache[c], row)[criteria[i][1]] = criteria[i][2]

IsSave == lastCall.op \in {"save", "manager.save"}

\* C1: when the callback of transaction() has saved rows (an A, a B) and then
\* throws, transaction() throws that error to its caller and no row the
\* callback saved is in the store afterwards unless it was there before
C1_AtomicityOnFailure ==
    (lastCall.op = "transaction" /\ lastCall.thrown # "") =>
        /\ ~lastCall.ok
        /\ lastCall.error = lastCall.thrown
        /\ \A w \in lastCall.saved :
              Persisted(working, w[1], w[2]) => Persisted(lastCall.before, w[1], w[2])
        /\ txStack = <<>> =>
              \A w \in lastCall.saved :
                 Persisted(durable, w[1], w[2]) => Persisted(lastCall.before, w[1], w[2])

C1_Witness ==
    /\ lastCall.op = "transaction" /\ lastCall.thrown # "" /\ txStack = <<>>
    /\ \E a \in lastCall.saved : \E b \in lastCall.saved :
          /\ a[1] = "A" /\ b[1] = "B"
          /\ ~Persisted(lastCall.before, "A", a[2])
          /\ ~Persisted(lastCall.before, "B", b[2])
          /\ ~Persisted(durable, "A", a[2])
          /\ ~Persisted(durable, "B", b[2])

\* C2: while a transaction's callback runs nothing it wrote is committed; when
\* the callback of the outermost transaction returns, the connection's view
\* with all its writes becomes the committed state in that one step, and
\* transaction() returns the callback's return value
C2_AtomicCommit ==
    /\ [](txStack # <<>> => durable = txStack[1].before)
    /\ [][(txStack # <<>> /\ txStack' = <<>> /\ lastCall'.thrown = "") =>
            /\ durable' = working
            /\ working' = working
            /\ lastCall'.ok
            /\ lastCall'.value = lastCall'.returned
            /\ \A w \in lastCall'.saved :
                  Persisted(working, w[1], w[2]) => Persisted(durable', w[1], w[2])]_vars

C2_Witness ==
    /\ lastCall.op = "transaction" /\ lastCall.thrown = "" /\ txStack = <<>>
    /\ lastCall.value = Str("done")
    /\ \E a \in lastCall.saved : \E b \in lastCall.saved :
          /\ a[1] = "A" /\ b[1] = "B"
          /\ ~Persisted(lastCall.before, "A", a[2])
          /\ ~Persisted(lastCall.before, "B", b[2])
          /\ Persisted(durable, "A", a[2])
          /\ Persisted(durable, "B", b[2])

\* C3: a save of an instance whose primary-key value a row already bears does
\* not fail, and leaves exactly one row with that key, holding the values of
\* this save
C3_UpsertIdempotence ==
    (/\ IsSave
     /\ metadata.primary[lastCall.entity] # NoPrimaryKey
     /\ Len(RowsWithKey(lastCall.before, lastCall.entity,
                        lastCall.arg[metadata.primary[lastCall.entity]])) > 0) =>
        /\ lastCall.ok
        /\ LET rows == RowsWithKey(working, lastCall.entity,
                                   lastCall.arg[metadata.primary[lastCall.entity]])
           IN /\ Len(rows) = 1
              /\ MapRowToEntity(repositoryCache[lastCall.entity], rows[1]) = lastCall.arg

\* C4: after a save that succeeded, findById of the saved instance's key
\* returns an instance with the same value in every declared property
C4_SaveFindRoundTrip ==
    (IsSave /\ lastCall.ok /\ metadata.primary[lastCall.entity] # NoPrimaryKey) =>
        LET found == FindById(repositoryCache[lastCall.entity], working,
                              lastCall.arg[metadata.primary[lastCall.entity]])
        IN found.ok /\ found.value = lastCall.arg

C4_Witness ==
    /\ IsSave /\ lastCall.ok /\ lastCall.entity = "B"
    /\ lastCall.arg.isActive = Bool(TRUE)
    /\ FindById(repositoryCache["B"], working, lastCall.arg.id).value = lastCall.arg

\* C5: count() returns the number of rows of the table; a save that succeeds
\* with a new key adds one row, a save of a key already there leaves the
\* number of rows as it was, and deleteById(id) removes the rows whose key is
\* id and no other
C5_CountTracksRows ==
    /\ (lastCall.op = "count" /\ HasTable(working, metadata.table[lastCall.entity])) =>
          lastCall.ok /\ lastCall.value = Num(Len(RowsOf(working, lastCall.entity)))
    /\ (IsSave /\ metadata.primary[lastCall.entity] # NoPrimaryKey) =>
          LET had == Len(RowsWithKey(lastCall.before, lastCall.entity,
                                     lastCall.arg[metadata.primary[lastCall.entity]]))
          IN Len(RowsOf(working, lastCall.entity)) =
                Len(RowsOf(lastCall.before, lastCall.entity))
                  + (IF had = 0 /\ lastCall.ok THEN 1 ELSE 0)
    /\ (lastCall.op = "deleteById" /\ HasTable(working, metadata.table[lastCall.entity])) =>
          /\ lastCall.ok
          /\ RowsOf(working, lastCall.entity) =
                SelectSeq(RowsOf(lastCall.before, lastCall.entity),
                          LAMBDA row : row \notin
                             {RowsWithKey(lastCall.before, lastCall.entity, lastCall.arg)[i] :
                                i \in 1..Len(RowsWithKey(lastCall.before, lastCall.entity,
                                                         lastCall.arg))})
          /\ lastCall.value = Num(Len(RowsWithKey(lastCall.before, lastCall.entity,
                                                  lastCall.arg)))

C5_Witness ==
    /\ lastCall.op = "deleteById" /\ lastCall.entity = "A" /\ lastCall.ok
    /\ Len(RowsOf(lastCall.before, "A")) = 2
    /\ Len(RowsOf(working, "A")) = 1
    /\ Count(repositoryCache["A"], working).value = Num(1)

\* C6: findBy({}) returns what find() returns in the same store state
C6_EmptyCriteriaFullScan ==
    (lastCall.op = "findBy" /\ Len(lastCall.arg) = 0) =>
        /\ lastCall.ok = Find(repositoryCache[lastCall.entity], working).ok
        /\ lastCall.value = Find(repositoryCache[lastCall.entity], working).value

C6_Witness ==
    /\ lastCall.op = "findBy" /\ Len(lastCall.arg) = 0 /\ lastCall.ok
    /\ Len(lastCall.value) = 2

\* C7: findOneBy(criteria) and findById(id) return undefined, and do not
\* throw, when no row of the table matches
C7_AbsenceIsNotFailure ==
    /\ (/\ lastCall.op = "findOneBy"
        /\ HasTable(working, metadata.table[lastCall.entity])
        /\ \A i \in 1..Len(RowsOf(working, lastCall.entity)) :
              ~Satisfies(lastCall.entity, RowsOf(working, lastCall.entity)[i], lastCall.arg))
          => (lastCall.ok /\ lastCall.value = Undefined)
    /\ (/\ lastCall.op = "findById"
        /\ HasTable(working, metadata.table[lastCall.entity])
        /\ metadata.primary[lastCall.entity] # NoPrimaryKey
        /\ Len(RowsWithKey(working, lastCall.entity, lastCall.arg)) = 0)
          => (lastCall.ok /\ lastCall.value = Undefined)

C7_Witness ==
    /\ lastCall.op = "findOneBy" /\ lastCall.entity = "A"
    /\ Len(lastCall.arg) = 2
    /\ Len(RowsOf(working, "A")) = 0
    /\ lastCall.ok /\ lastCall.value = Undefined

\* A table name made of letters, digits and underscores that does not start
\* with a digit
C8_IsIdentifier(name) ==
    /\ Len(name) > 0
    /\ name[1] \notin {"1", ";", "'"}
    /\ \A i \in 1..Len(name) : name[i] \notin {";", "'"}

C9_NotRegistered ==
    /\ (/\ lastCall.op = "getRepository"
        /\ \/ metadata.table[lastCall.entity] = NoTableName
           \/ Len(metadata.columns[lastCall.entity]) = 0)
          => /\ ~lastCall.ok
             /\ lastCall.error \in {"missing @Entity decorator", "no @Column decorators"}
             /\ repositoryCache[lastCall.entity] = NoRepository
    /\ \A c \in Classes :
          repositoryCache[c] # NoRepository =>
             /\ metadata.table[c] # NoTableName
             /\ Len(repositoryCache[c].columns) > 0

C9_Witness ==
    /\ lastCall.op = "getRepository" /\ lastCall.entity = Declared
    /\ metadata.table[Declared] # NoTableName
    /\ Len(metadata.columns[Declared]) = 0
    /\ ~lastCall.ok /\ lastCall.error = "no @Column decorators"

\* C10: a second @Column marked primary on a class throws and does not
\* replace the first: at most one column of a class is primary, and the
\* primary key names that column
C10_AtMostOnePrimary ==
    \A c \in Classes :
        LET prim == {i \in 1..Len(metadata.columns[c]) : metadata.columns[c][i].isPrimary}
        IN /\ Cardinality(prim) <= 1
           /\ \A i \in prim : metadata.primary[c] = metadata.columns[c][i].property

\* C11: update(criteria, updates) with an empty updates map throws the
\* repository's own no-update-fields error, whatever the criteria, the empty
\* criteria included, and the store is as it was before the call
C11_NoUpdateFields ==
    (lastCall.op = "update" /\ Len(lastCall.arg[2]) = 0) =>
        /\ ~lastCall.ok
        /\ lastCall.error = "update() requires at least one field to update"
        /\ working = lastCall.before
        /\ durable = lastCall.before

C11_Witness ==
    /\ lastCall.op = "update" /\ lastCall.entity = "A"
    /\ Len(lastCall.arg[1]) = 0 /\ Len(lastCall.arg[2]) = 0
    /\ Len(RowsOf(working, "A")) = 2
    /\ ~lastCall.ok

\* C12: findById and deleteById on an entity without a primary key throw the
\* repository's no-primary-key error and leave the store as it was
C12_NoPrimaryKey ==
    (/\ lastCall.op \in {"findById", "deleteById"}
     /\ metadata.primary[lastCall.entity] = NoPrimaryKey) =>
        /\ ~lastCall.ok
        /\ lastCall.error = "no primary key defined"
        /\ working = lastCall.before
        /\ txStack = <<>> => durable = lastCall.before

C12_Witness ==
    /\ lastCall.op = "deleteById" /\ lastCall.entity = "T"
    /\ metadata.primary["T"] = NoPrimaryKey
    /\ ConnectionOpen(repositoryCache["T"].db)
    /\ RowCount("T") = 1
    /\ lastCall.error = "no primary key defined"

\* C13: dataSource.getRepository called while the DataSource is not
\* initialized (never initialized, initialize() failed, or destroyed) throws
\* the not-initialized error, returns no repository and caches none
C13_NotInitialized ==
    /\ [](lastCall.op = "ds.getRepository" /\ ~isInitialized =>
            /\ ~lastCall.ok
            /\ lastCall.error = "DataSource not initialized"
            /\ lastCall.value = NoRepository)
    /\ [][(lastCall'.op = "ds.getRepository" /\ ~isInitialized) =>
             repositoryCache' = repositoryCache]_vars

C13_Witness ==
    /\ lastCall.op = "ds.getRepository" /\ lastCall.entity = "A"
    /\ ~isInitialized /\ nextConn = 1
    /\ ~lastCall.ok

\* The calls a program makes on a DataSource, its manager and its repositories
C14_Operations ==
    {"ds.getRepository", "getRepository", "save", "manager.save", "findById", "deleteById"}

\* C14: once the DataSource has been destroyed and until it is initialized
\* again, every call on it, on its manager and on the repositories handed
\* out before fails, with an error that says the DataSource is not usable
C14_ShutdownFailsEverything ==
    (~isInitialized /\ nextConn > 1 /\ lastCall.op \in C14_Operations) =>
        /\ ~lastCall.ok
        /\ lastCall.error \in {"DataSource not initialized",
                                "The database connection is not open"}

\* C15: initialize() on an initialized DataSource succeeds and changes
\* neither the connection, the manager, the repositories nor the store
C15_InitializeIdempotent ==
    /\ []((lastCall.op = "initialize" /\ lastCall.arg.wasInitialized) =>
            /\ lastCall.ok
            /\ isInitialized
            /\ working = lastCall.before)
    /\ [][(isInitialized /\ lastCall'.op = "initialize") =>
            UNCHANGED <<dsDb, isInitialized, nextConn, mgrDb, repositoryCache,
                        durable, working, metadata>>]_vars

C15_Witness ==
    /\ lastCall.op = "initialize" /\ lastCall.arg.wasInitialized
    /\ dsDb = 1 /\ mgrDb = 1 /\ nextConn = 2
    /\ RowCount("A") = 1
    /\ repositoryCache["A"] # NoRepository

\* An entity whose CREATE TABLE statement can be built and runs on its own
C16_Creatable(entity) ==
    /\ GetTableName(metadata, entity).ok
    /\ GetColumnMetadata(metadata, entity).ok
    /\ SqlCreate(EmptyDatabase,
                 CreateStatement(metadata.table[entity], metadata.columns[entity])).ok

C17_Memoization ==
    /\ [][\A c \in Classes :
            repositoryCache[c] # NoRepository => repositoryCache'[c] = repositoryCache[c]]_vars
    /\ []((lastCall.op \in {"getRepository", "ds.getRepository"} /\ lastCall.ok) =>
            lastCall.value = repositoryCache[lastCall.entity])
    /\ [](\A c \in Classes : \A d \in Classes :
            (c # d /\ repositoryCache[c] # NoRepository) =>
               repositoryCache[c] # repositoryCache[d])

C17_Witness ==
    /\ lastCall.op = "getRepository" /\ lastCall.entity = "A" /\ lastCall.ok
    /\ txStack # <<>>
    /\ lastCall.value = repositoryCache["A"]
    /\ lastCall.value.db = 1 /\ mgrDb = 2
    /\ repositoryCache["T"] # NoRepository

\* C18: a transaction called from inside a transaction's callback is rejected
\* (it fails without running its callback) or flattened: while the outer
\* callback still runs, the rows the inner call saved are still there,
\* whether the inner call returned or threw
C18_NestedFlattenedOrRejected ==
    (lastCall.op = "transaction" /\ lastCall.arg > 1) =>
        \/ ~lastCall.ok /\ lastCall.thrown = "" /\ lastCall.saved = {}
        \/ \A w \in lastCall.saved : Persisted(working, w[1], w[2])

\* C19: for a column of each kind and each non-null value of that kind, the
\* converted value is one the engine binds, and converting what was stored
\* back gives the value that was converted
C19_ConversionRoundTrip ==
    /\ lastCall.op = "toDbValue" => Bindable(lastCall.value)
    /\ lastCall.op = "fromDbValue" => lastCall.value = lastCall.arg

C19_Witness ==
    /\ lastCall.op = "fromDbValue" /\ lastCall.entity = "Date"
    /\ lastCall.arg = Date(7)
    /\ lastCall.returned = Str("1970-01-01T00:00:00.007Z")
    /\ lastCall.value = Date(7)

\* The identifiers a compiled statement embeds besides its table name
C20_Identifiers(statement) ==
    {statement.where[i] : i \in 1..Len(statement.where)}
      \cup (IF statement.kind = "update"
            THEN {statement.set[i] : i \in 1..Len(statement.set)} ELSE {})

\* C20: every identifier in a statement compiled from a criteria or update
\* map is the entity's registered table name or one of its registered
\* column names
C20_IdentifiersFromMetadata ==
    lastCall.op \in {"compileSelect", "compileDelete", "updateStatement"} =>
        /\ lastCall.value.table = metadata.table[lastCall.entity]
        /\ C20_Identifiers(lastCall.value) \subseteq
              {metadata.columns[lastCall.entity][i].column :
                 i \in 1..Len(metadata.columns[lastCall.entity])}

\* The kind of value a property of the given design:type holds
C21_KindOf(type) ==
    CASE type = "Number" -> "number"
      [] type = "Boolean" -> "boolean"
      [] type = "Date" -> "Date"
      [] OTHER -> "string"

\* Every declared property of the instance holds a value of its kind, or null
C21_WellTyped(c, instance) ==
    \A i \in 1..Len(metadata.columns[c]) :
        instance[metadata.columns[c][i].property].k
            \in {C21_KindOf(metadata.columns[c][i].type), "null"}

\* C21: every entity instance a read operation returns has every declared
\* property present and of the declared kind; a row that lacks a column or
\* holds a value of another kind makes the operation fail instead
C21_TotalHydration ==
    /\ (lastCall.op \in {"find", "findBy"} /\ lastCall.ok) =>
          \A i \in 1..Len(lastCall.value) :
             C21_WellTyped(lastCall.entity, lastCall.value[i])
    /\ (lastCall.op \in {"findOneBy", "findById"} /\ lastCall.ok) =>
          \/ lastCall.value = Undefined
          \/ C21_WellTyped(lastCall.entity, lastCall.value)

\* C22: save of an instance of a registered entity type succeeds or fails
\* with an error of the storage engine; the repository's own shape error is
\* never what it throws
C22_SaveNeverRejects ==
    (IsSave /\ lastCall.arg \in Instances(lastCall.entity)) =>
        lastCall.error # "Entity does not match expected shape"

\* The table of the class has every declared column
C23_HasColumns(c) ==
    /\ HasTable(working, metadata.table[c])
    /\ \A i \in 1..Len(metadata.columns[c]) :
          metadata.columns[c][i].column \in ColumnNames(working[metadata.table[c]].columns)

\* The rows of the class's table that satisfy every criterion
C23_Matching(c, criteria) ==
    SelectSeq(RowsOf(working, c), LAMBDA row : Satisfies(c, row, criteria))

\* C23: findBy with criteria returns the entities of exactly the rows that
\* satisfy every criterion, the WHERE terms and parameters of its statement
\* follow the order of the criteria, and findOneBy returns the entity of a
\* row that satisfies the criteria whenever there is one
C23_ConjunctiveMatch ==
    /\ (lastCall.op = "findBy" /\ Len(lastCall.arg) > 0 /\ C23_HasColumns(lastCall.entity)) =>
          /\ lastCall.ok
          /\ lastCall.value = MapRows(repositoryCache[lastCall.entity],
                                      C23_Matching(lastCall.entity, lastCall.arg))
          /\ LET repo == repositoryCache[lastCall.entity]
                 q == CompileSelect(CompilerMeta(repo, FALSE),
                                    NormalizeCriteria(repo, lastCall.arg))
             IN \A i \in 1..Len(lastCall.arg) :
                   /\ q.sql.where[i] = FindColumn(repo, lastCall.arg[i][1]).column
                   /\ q.params[i] = ToDbValue(FindColumn(repo, lastCall.arg[i][1]),
                                              lastCall.arg[i][2])
    /\ (/\ lastCall.op = "findOneBy" /\ Len(lastCall.arg) > 0
        /\ C23_HasColumns(lastCall.entity)
        /\ Len(C23_Matching(lastCall.entity, lastCall.arg)) > 0) =>
          /\ lastCall.ok
          /\ \E i \in 1..Len(C23_Matching(lastCall.entity, lastCall.arg)) :
                lastCall.value = MapRowToEntity(repositoryCache[lastCall.entity],
                                                C23_Matching(lastCall.entity, lastCall.arg)[i])

\* The instance with the named fields set to their new values
C24_Updated(instance, updates) ==
    [p \in DOMAIN instance |->
        IF \E j \in 1..Len(updates) : updates[j][1] = p
        THEN updates[CHOOSE j \in 1..Len(updates) : updates[j][1] = p][2]
        ELSE instance[p]]

\* C24: update with a non-empty updates map succeeds, reports the number of
\* rows that satisfy every criterion, sets the named fields on those rows and
\* leaves every other field, row and table as it was; the criteria may match
\* no row
C24_UpdateFrame ==
    (/\ lastCall.op = "update" /\ Len(lastCall.arg[2]) > 0
     /\ C23_HasColumns(lastCall.entity)) =>
        LET c == lastCall.entity
            repo == repositoryCache[c]
            old == RowsOf(lastCall.before, c)
            new == RowsOf(working, c)
        IN /\ lastCall.ok
           /\ lastCall.value =
                 Num(Cardinality({i \in 1..Len(old) : Satisfies(c, old[i], lastCall.arg[1])}))
           /\ Len(new) = Len(old)
           /\ \A i \in 1..Len(old) :
                 MapRowToEntity(repo, new[i]) =
                    IF Satisfies(c, old[i], lastCall.arg[1])
                    THEN C24_Updated(MapRowToEntity(repo, old[i]), lastCall.arg[2])
                    ELSE MapRowToEntity(repo, old[i])
           /\ \A t \in DOMAIN working :
                 t # metadata.table[c] => working[t] = lastCall.before[t]

\* The same for criteria that name at least one field
C24_UpdateFrameOfCriteria ==
    (lastCall.op = "update" /\ Len(lastCall.arg[1]) > 0) => C24_UpdateFrame

\* C25: for a Boolean column true is stored as 1 and false as 0, and a stored
\* 0 reads as false and every other stored integer as true; null and
\* undefined come out of both conversions as they went in, and so does every
\* value of a column whose type has no converter
C25_BooleanMapping ==
    /\ (lastCall.op = "toDbValue" /\ lastCall.entity = "Boolean") =>
          lastCall.value = Num(IF lastCall.arg = Bool(TRUE) THEN 1 ELSE 0)
    /\ (lastCall.op = "hydrate" /\ lastCall.entity = "Boolean"
           /\ lastCall.arg.k = "number") =>
          lastCall.value = Bool(lastCall.arg.n # 0)
    /\ (lastCall.op \in {"toDbValue(nullish)", "hydrate"} /\ IsNullish(lastCall.arg)) =>
          lastCall.value = lastCall.arg
    /\ (lastCall.op \in {"toDbValue", "toDbValue(nullish)", "hydrate"}
           /\ lastCall.entity \in {"Number", "String", "Object"}) =>
          lastCall.value = lastCall.arg

C25_Witness ==
    /\ lastCall.op = "hydrate" /\ lastCall.entity = "Boolean"
    /\ lastCall.arg = Num(2)
    /\ lastCall.value = Bool(TRUE)

\* C26: after an initialize() that opened the connection with synchronize
\* on, every listed entity that is declared with a table name and columns
\* has its table, and the statement built for it lists the declared columns
\* in order, each with the SQL type of its kind, the primary one marked
\* PRIMARY KEY and no column carrying any other constraint
C26_CreateTable ==
    (/\ lastCall.op = "initialize"
     /\ ~lastCall.arg.wasInitialized
     /\ lastCall.arg.opens) =>
        \A i \in 1..Len(DsOptions.entities) :
            LET entity == DsOptions.entities[i]
                columns == metadata.columns[entity]
                stmt == CreateStatement(metadata.table[entity], columns)
            IN (GetTableName(metadata, entity).ok /\ GetColumnMetadata(metadata, entity).ok) =>
                  /\ HasTable(working, metadata.table[entity])
                  /\ stmt.table = metadata.table[entity]
                  /\ Len(stmt.columns) = Len(columns)
                  /\ \A j \in 1..Len(columns) :
                        /\ stmt.columns[j].name = columns[j].column
                        /\ stmt.columns[j].sqlType =
                              (IF columns[j].type \in {"Number", "Boolean"}
                               THEN "INTEGER" ELSE "TEXT")
                        /\ stmt.columns[j].primaryKey = columns[j].isPrimary
                        /\ ~stmt.columns[j].autoincrement

\* C27: a repository that dataSource.getRepository returns is bound to the
\* connection the DataSource holds open
C27_BoundToOpenConnection ==
    (lastCall.op = "ds.getRepository" /\ lastCall.ok) =>
        /\ isInitialized
        /\ ConnectionOpen(lastCall.value.db)

\* C28: the DataSource is initialized only while it holds a connection and
\* its manager holds the same one; an initialize() that fails leaves the
\* DataSource not initialized and as it was; destroy() on a DataSource that
\* is not initialized changes nothing
C28_LifecycleInvariant ==
    /\ [](isInitialized => (dsDb # 0 /\ mgrDb = dsDb))
    /\ []((lastCall.op = "initialize" /\ ~lastCall.ok) => ~isInitialized)
    /\ [][(lastCall'.op = "initialize" /\ ~lastCall'.ok) =>
            UNCHANGED <<dsDb, isInitialized, nextConn, mgrDb, repositoryCache,
                        durable, working, metadata>>]_vars
    /\ [][(~isInitialized /\ lastCall'.op = "destroy") =>
            UNCHANGED <<dsDb, isInitialized, nextConn, mgrDb, repositoryCache,
                        durable, working, metadata>>]_vars

C28_Witness ==
    /\ lastCall.op = "destroy" /\ ~lastCall.arg.wasInitialized
    /\ nextConn = 2 /\ dsDb = 0 /\ mgrDb = 1
    /\ ~isInitialized

\* C29: delete with criteria removes the rows that satisfy every criterion,
\* reports their number and leaves every other row and table as it was;
\* delete with empty criteria removes nothing; find, findBy, findOneBy,
\* findById and count leave the store as it was
C29_DeleteFrame ==
    /\ []((/\ lastCall.op = "delete" /\ Len(lastCall.arg) > 0
           /\ C23_HasColumns(lastCall.entity)) =>
            LET c == lastCall.entity
                old == RowsOf(lastCall.before, c)
            IN /\ lastCall.ok
               /\ RowsOf(working, c) =
                     SelectSeq(old, LAMBDA row : ~Satisfies(c, row, lastCall.arg))
               /\ lastCall.value = Num(Len(old) - Len(RowsOf(working, c)))
               /\ \A t \in DOMAIN working :
                     t # metadata.table[c] => working[t] = lastCall.before[t])
    /\ []((lastCall.op = "delete" /\ Len(lastCall.arg) = 0) =>
            (working = lastCall.before /\ durable = lastCall.before))
    /\ [][lastCall'.op \in {"find", "findBy", "findOneBy", "findById", "count"} =>
            (working' = working /\ durable' = durable)]_vars

C29_Witness ==
    /\ lastCall.op = "delete" /\ lastCall.entity = "A"
    /\ Len(lastCall.arg) = 0
    /\ Len(RowsOf(lastCall.before, "A")) = 2
    /\ Len(RowsOf(working, "A")) = 2

\* C30: after a transaction whose callback threw, the connection's view and
\* the file are what they were when the transaction began, rows committed
\* before it included; the manager can begin another transaction, and a
\* transaction that follows a failed one and returns commits what it wrote
C30_RollbackAndReuse ==
    /\ []((lastCall.op = "transaction" /\ lastCall.thrown # "") =>
            /\ ~lastCall.ok
            /\ working = lastCall.before
            /\ txStack = <<>> => durable = lastCall.before)
    /\ []((lastCall.op = "transaction" /\ lastCall.thrown # "" /\ txStack = <<>>) =>
            ENABLED TransactionBeginAfter)
    /\ [][(/\ txStack # <<>> /\ txStack[1].afterFailure
           /\ txStack' = <<>> /\ lastCall'.thrown = "") =>
            /\ lastCall'.ok
            /\ working' = working
            /\ durable' = working
            /\ \A w \in lastCall'.saved : Persisted(durable', w[1], w[2])]_vars

C30_Witness ==
    /\ lastCall.op = "transaction" /\ lastCall.thrown # "" /\ txStack = <<>>
    /\ \E w \in lastCall.saved : w[1] = "A" /\ w[2].id = Num(2)
    /\ Len(RowsOf(lastCall.before, "A")) = 1
    /\ Len(RowsOf(lastCall.before, "B")) = 1
    /\ durable = lastCall.before
    /\ working = lastCall.before

====
